---- MODULE Spec2Model ----
(***************************************************************************)
(* Delivery planning of the robot service: the knapsack selector           *)
(* selectOrdersForDelivery and the read / select / conditional-write       *)
(* protocol of RobotService.GenerateDeliveryPlan over the orders ledger.   *)
(*                                                                         *)
(* Two specifications share the module:                                    *)
(*   SelSpec  one call of the selector on an arbitrary candidate list,     *)
(*            short or long enough for the DP loop to poll its context,    *)
(*            followed by what GenerateDeliveryPlan hands to the write;    *)
(*   Spec     two GenerateDeliveryPlan calls and UpdateOrderStatus calls   *)
(*            interleaved over one orders table.                           *)
(***************************************************************************)
EXTENDS Integers, Sequences, FiniteSets, TLC

VARIABLES
    \* ---- selector specification ----
    selOrders,    \* the candidate list handed to selectOrdersForDelivery
    selCtxDone,   \* whether the call's context is done when it is polled
    selCap,       \* robotCapacity of the (latest) call
    selPc,        \* "input" before the call, "done" after it
    selRes,       \* [plan, err] the call returned
    selOrderIDs,  \* the ids GenerateDeliveryPlan would hand to the write
    selPrev,      \* TotalValue returned for an earlier, smaller capacity
    \* ---- ledger specification ----
    status,       \* orders.shipped_status
    pc,           \* position of each GenerateDeliveryPlan call
    capacity,     \* the call's capacity argument
    snapshot,     \* orders, as read by GetShippingOrders
    plan,         \* the plan variable of the call
    rows,         \* rows-affected count the call logged
    ret,          \* [plan, err] returned to the caller
    claimedBy,    \* history: the calls whose write moved the order
    extWrites     \* history: number of UpdateOrderStatus calls so far

selVars == <<selOrders, selCtxDone, selCap, selPc, selRes, selOrderIDs,
             selPrev>>
ledgerVars == <<status, pc, capacity, snapshot, plan,
                rows, ret, claimedBy, extWrites>>
vars == <<selVars, ledgerVars>>

\* ---- bounds of the model ----
MaxLen == 3
MaxWeight == 2
MaxValue == 2
MaxCapacity == 3
NumOrders == 3
MaxExtWrites == 1

\* ---- program constants ----
PollEvery == 512

Nil == "nil"
NoRows == -1
Capacities == -1 .. MaxCapacity

\* the sums the loops accumulate; a list is summed by halves, which keeps the
\* nesting of the evaluation logarithmic in its length
RECURSIVE SumWeight(_)
SumWeight(s) ==
    IF Len(s) = 0 THEN 0
    ELSE IF Len(s) = 1 THEN s[1].Weight
    ELSE LET mid == Len(s) \div 2
         IN  SumWeight(SubSeq(s, 1, mid)) + SumWeight(SubSeq(s, mid + 1, Len(s)))

RECURSIVE SumValue(_)
SumValue(s) ==
    IF Len(s) = 0 THEN 0
    ELSE IF Len(s) = 1 THEN s[1].Value
    ELSE LET mid == Len(s) \div 2
         IN  SumValue(SubSeq(s, 1, mid)) + SumValue(SubSeq(s, mid + 1, Len(s)))

IdsOf(s) == [i \in 1 .. Len(s) |-> s[i].OrderID]

\* model.DeliveryPlan{RobotID: robotID} and the zero value model.DeliveryPlan{}
EmptyPlan(robotID) ==
    [RobotID |-> robotID, TotalWeight |-> 0, TotalValue |-> 0, Orders |-> <<>>]

\* ---------------------------------------------------------------------
\* selectOrdersForDelivery
\* ---------------------------------------------------------------------

\* step 0: the trivial cases
IsTrivial(orders, robotCapacity) ==
    robotCapacity <= 0 \/ Len(orders) = 0

\* faulty variant of Keeps: the value test is missing
KeepsValueUnchecked(o, robotCapacity) ==
    ~(o.Weight <= 0) /\ ~(o.Weight > robotCapacity)

\* faulty variant of Keeps: the weight test is < 0 instead of <= 0
KeepsZeroWeight(o, robotCapacity) ==
    ~(o.Weight < 0 \/ o.Value <= 0) /\ ~(o.Weight > robotCapacity)

\* step 1: the pre-filter keeps an order unless one of its two `continue`s fires
Keeps(o, robotCapacity) ==
    ~(o.Weight <= 0 \/ o.Value <= 0) /\ ~(o.Weight > robotCapacity)

PreFilter(orders, robotCapacity) ==
    SelectSeq(orders, LAMBDA o : Keeps(o, robotCapacity))

\* faulty variant of Cell: option A starts from 0 instead of dp[i-1][c]
CellDroppingSkip(prev, w, v, c) ==
    LET take == IF w <= c THEN prev[c - w] + v ELSE -1
    IN  IF take > 0 THEN [dp |-> take, choice |-> TRUE]
                    ELSE [dp |-> 0, choice |-> FALSE]

\* step 4, one cell: dp[i][c] and choice[i][c] from row i-1
Cell(prev, w, v, c) ==
    LET best == prev[c]
        take == IF w <= c THEN prev[c - w] + v ELSE -1
    IN  IF take > best THEN [dp |-> take, choice |-> TRUE]
                       ELSE [dp |-> best, choice |-> FALSE]

\* step 4, the inner loop: the cells 0..upto of row i from row i-1
RECURSIVE RowCells(_, _, _, _)
RowCells(prev, w, v, upto) ==
    IF upto = 0 THEN 0 :> Cell(prev, w, v, 0)
    ELSE RowCells(prev, w, v, upto - 1) @@ (upto :> Cell(prev, w, v, upto))

\* step 4, the outer loop: the rows lo..hi, given row lo-1; the range is
\* filled by halves, the second half starting from the last row of the first
RECURSIVE Rows(_, _, _, _, _)
Rows(orders, robotCapacity, below, lo, hi) ==
    IF lo > hi THEN <<>>
    ELSE IF lo = hi
    THEN LET prev == [c \in 0 .. robotCapacity |-> below[c].dp]
         IN  << RowCells(prev, orders[lo].Weight, orders[lo].Value,
                         robotCapacity) >>
    ELSE LET mid == (lo + hi) \div 2
             first == Rows(orders, robotCapacity, below, lo, mid)
         IN  first \o Rows(orders, robotCapacity, first[Len(first)],
                           mid + 1, hi)

\* steps 3 and 4: the rows 0..i of dp and choice, as a sequence (row i at i+1)
FillTable(orders, robotCapacity, i) ==
    LET row0 == [c \in 0 .. robotCapacity |-> [dp |-> 0, choice |-> FALSE]]
    IN  <<row0>> \o Rows(orders, robotCapacity, row0, 1, i)

\* faulty variant of PollObservesDone: the poll comes every 1024 rows
PollEveryOtherTime(n, done) ==
    done /\ \E i \in 1 .. n : i % (2 * PollEvery) = 0

\* the poll of ctx.Done() at every PollEvery-th row
PollObservesDone(n, done) ==
    done /\ \E i \in 1 .. n : i % PollEvery = 0

\* faulty variant of BacktrackStep: capLeft is never reduced
BacktrackStepKeepingCap(orders, table, i, st) ==
    IF st.capLeft <= 0 THEN st
    ELSE IF ~table[i + 1][st.capLeft].choice THEN st
    ELSE [capLeft |-> st.capLeft,
          selected |-> Append(st.selected, orders[i]),
          totalSelectedWeight |-> st.totalSelectedWeight + orders[i].Weight]

\* step 5, the iteration at row i; once capLeft <= 0 the loop has left by
\* its `break` and no later iteration changes anything
BacktrackStep(orders, table, i, st) ==
    IF st.capLeft <= 0 THEN st
    ELSE IF ~table[i + 1][st.capLeft].choice THEN st
    ELSE [capLeft |-> st.capLeft - orders[i].Weight,
          selected |-> Append(st.selected, orders[i]),
          totalSelectedWeight |-> st.totalSelectedWeight + orders[i].Weight]

\* step 5, the iterations at rows hi down to lo, by halves; the lower half
\* is not entered when the upper half has left the loop
RECURSIVE BacktrackRows(_, _, _, _, _)
BacktrackRows(orders, table, hi, lo, st) ==
    IF hi < lo THEN st
    ELSE IF hi = lo THEN BacktrackStep(orders, table, hi, st)
    ELSE LET mid == (lo + hi) \div 2
             upper == BacktrackRows(orders, table, hi, mid + 1, st)
         IN  IF upper.capLeft <= 0 THEN upper
             ELSE BacktrackRows(orders, table, mid, lo, upper)

\* step 5: the walk from row i down to 1
Backtrack(orders, table, i, capLeft, acc) ==
    LET st == BacktrackRows(orders, table, i, 1,
                            [capLeft |-> capLeft,
                             selected |-> acc.selected,
                             totalSelectedWeight |-> acc.totalSelectedWeight])
    IN  [selected |-> st.selected,
         totalSelectedWeight |-> st.totalSelectedWeight]

selectOrdersForDelivery(done, orders, robotID, robotCapacity) ==
    IF IsTrivial(orders, robotCapacity)
    THEN [plan |-> EmptyPlan(robotID), err |-> Nil]
    ELSE
    LET filtered == PreFilter(orders, robotCapacity)
        totalWeight == SumWeight(filtered)
        totalValue == SumValue(filtered)
        n == Len(filtered)
    IN  IF n = 0
        THEN [plan |-> EmptyPlan(robotID), err |-> Nil]
        ELSE IF totalWeight <= robotCapacity
        THEN [plan |-> [RobotID |-> robotID, TotalWeight |-> totalWeight,
                        TotalValue |-> totalValue, Orders |-> filtered],
              err |-> Nil]
        ELSE IF PollObservesDone(n, done)
        THEN [plan |-> EmptyPlan(""), err |-> "context done"]
        ELSE
        LET table == FillTable(filtered, robotCapacity, n)
            bestValue == table[n + 1][robotCapacity].dp
            walk == Backtrack(filtered, table, n, robotCapacity,
                              [selected |-> <<>>, totalSelectedWeight |-> 0])
        IN  [plan |-> [RobotID |-> robotID,
                       TotalWeight |-> walk.totalSelectedWeight,
                       TotalValue |-> bestValue,
                       Orders |-> walk.selected],
             err |-> Nil]

\* GenerateDeliveryPlan, lines 37-45: the ids handed to the write; none when
\* the call failed or selected nothing
OrderIDsForWrite(res) ==
    IF res.err # Nil \/ Len(res.plan.Orders) = 0 THEN <<>>
    ELSE IdsOf(res.plan.Orders)

\* ---------------------------------------------------------------------
\* Specification SelSpec: the selector on an arbitrary candidate list
\* ---------------------------------------------------------------------

\* the (weight, value) pairs a candidate may carry: the non-negative ones of
\* the products table, and one malformed pair for each negative field
Pairs ==
    [Weight : 0 .. MaxWeight, Value : 0 .. MaxValue]
        \cup {[Weight |-> -1, Value |-> 1], [Weight |-> 1, Value |-> -1]}

\* the candidate list with the given pairs; the order id is the position
Candidates(f) ==
    [i \in DOMAIN f |->
        [OrderID |-> i, Weight |-> f[i].Weight, Value |-> f[i].Value]]

NoResult == [plan |-> EmptyPlan(""), err |-> "not called"]

SelIdle ==
    /\ selOrders = <<>>
    /\ selCtxDone = FALSE
    /\ selCap = 0
    /\ selPc = "off"
    /\ selRes = NoResult
    /\ selOrderIDs = <<>>
    /\ selPrev = -1

LedgerIdle ==
    /\ status = <<>>
    /\ pc = <<>>
    /\ capacity = <<>>
    /\ snapshot = <<>>
    /\ plan = <<>>
    /\ rows = <<>>
    /\ ret = <<>>
    /\ claimedBy = <<>>
    /\ extWrites = 0

\* PollEvery candidates that all carry the same pair: the shortest lists on
\* which the DP loop reaches a poll
LongLists == {Candidates([i \in 1 .. PollEvery |-> pr]) : pr \in Pairs}

\* the context is read only at a poll, so it is drawn only for the lists long
\* enough to reach one
SelInit ==
    /\ \/ \E n \in 0 .. MaxLen : \E f \in [1 .. n -> Pairs] :
              selOrders = Candidates(f)
       \/ selOrders \in LongLists
    /\ selCtxDone \in (IF Len(selOrders) >= PollEvery THEN BOOLEAN ELSE {FALSE})
    /\ selCap = 0
    /\ selPc = "input"
    /\ selRes = NoResult
    /\ selOrderIDs = <<>>
    /\ selPrev = -1
    /\ LedgerIdle

\* one call selectOrdersForDelivery(ctx, orders, robotID, c) and the id list
\* GenerateDeliveryPlan builds from its result
SelectCall(c) ==
    /\ selPc = "input"
    /\ selCap' = c
    /\ selRes' = selectOrdersForDelivery(selCtxDone, selOrders, "robot", c)
    /\ selOrderIDs' = OrderIDsForWrite(selRes')
    /\ selPc' = "done"
    /\ UNCHANGED <<selOrders, selCtxDone, selPrev>>
    /\ UNCHANGED ledgerVars

\* a further call on the same candidates with a larger capacity
SelectLarger(c) ==
    /\ selPc = "done"
    /\ c > selCap
    /\ selCap' = c
    /\ selRes' = selectOrdersForDelivery(selCtxDone, selOrders, "robot", c)
    /\ selOrderIDs' = OrderIDsForWrite(selRes')
    /\ selPrev' = selRes.plan.TotalValue
    /\ UNCHANGED <<selOrders, selCtxDone, selPc>>
    /\ UNCHANGED ledgerVars

SelNext ==
    \/ \E c \in Capacities : SelectCall(c)
    \/ \E c \in Capacities : SelectLarger(c)

SelSpec == SelInit /\ [][SelNext]_vars

\* ---------------------------------------------------------------------
\* The orders ledger and RobotService.GenerateDeliveryPlan
\* ---------------------------------------------------------------------

Planners == {1, 2}
OrderIDs == 1 .. NumOrders
Statuses == {"shipping", "delivering", "completed"}
RobotID(p) == IF p = 1 THEN "robot-1" ELSE "robot-2"

\* rows of the products table: weight and value are INT UNSIGNED
Products ==
    << [weight |-> 1, value |-> 2], [weight |-> 2, value |-> 3],
       [weight |-> 1, value |-> 1], [weight |-> 0, value |-> 1] >>

\* orders.product_id: the orders take the products in turn
ProductOf(o) == ((o - 1) % Len(Products)) + 1

Range(s) == {s[i] : i \in DOMAIN s}

\* the rows of a SELECT over the orders `ids`, in index order
RECURSIVE RowsOf(_)
RowsOf(ids) ==
    IF ids = {} THEN <<>>
    ELSE LET o == CHOOSE x \in ids : \A y \in ids : x <= y
         IN  << [OrderID |-> o, Weight |-> Products[ProductOf(o)].weight,
                 Value |-> Products[ProductOf(o)].value] >>
                 \o RowsOf(ids \ {o})

\* OrderRepository.GetShippingOrders: the orders whose status is 'shipping',
\* joined with their product
GetShippingOrders(st) ==
    RowsOf({o \in DOMAIN st : st[o] = "shipping"})

\* faulty variant of UpdateStatusesIfCurrentStatus: the status guard is missing
UpdateRegardlessOfStatus(st, orderIDs, fromStatus, newStatus) ==
    [status |-> [o \in DOMAIN st |->
                    IF o \in Range(orderIDs) THEN newStatus ELSE st[o]],
     rows |-> Len(orderIDs)]

\* OrderRepository.UpdateStatusesIfCurrentStatus: one UPDATE guarded by the
\* current status; returns the new table and the rows affected
UpdateStatusesIfCurrentStatus(st, orderIDs, fromStatus, newStatus) ==
    IF Len(orderIDs) = 0 THEN [status |-> st, rows |-> 0]
    ELSE LET hit == {o \in DOMAIN st :
                        st[o] = fromStatus /\ o \in Range(orderIDs)}
         IN  [status |-> [o \in DOMAIN st |->
                             IF o \in hit THEN newStatus ELSE st[o]],
              rows |-> Cardinality(hit)]

\* OrderRepository.UpdateStatuses: one unguarded UPDATE
UpdateStatuses(st, orderIDs, newStatus) ==
    IF Len(orderIDs) = 0 THEN st
    ELSE [o \in DOMAIN st |->
             IF o \in Range(orderIDs) THEN newStatus ELSE st[o]]

\* faulty variant of TxFnResult: a shortfall is turned into an error
TxFnRejectingShortfall(n, requested) ==
    IF n < requested THEN "conflict" ELSE Nil

\* the function GenerateDeliveryPlan runs in the transaction, after a
\* successful update: it logs n/requested and returns nil
TxFnResult(n, requested) == Nil

\* Store.ExecTx: the table after the transaction, which commits the
\* function's update when the function returns nil and rolls it back otherwise
ExecTx(st, updated, fnErr) ==
    IF fnErr = Nil THEN updated ELSE st

\* utils.WithTimeout: the error of the function it runs under the deadline
WithTimeout(fnErr) == fnErr

\* faulty variant of Return: the plan is returned with the error
ReturnPlanAnyway(localPlan, err) ==
    [plan |-> <<localPlan>>, err |-> err]

\* GenerateDeliveryPlan, the end: (nil, err) on an error, (&plan, nil) otherwise
Return(localPlan, err) ==
    IF err # Nil THEN [plan |-> <<>>, err |-> err]
    ELSE [plan |-> <<localPlan>>, err |-> Nil]

NotReturned == [plan |-> <<>>, err |-> "pending"]

Init ==
    /\ status = [o \in OrderIDs |-> "shipping"]
    /\ pc = [p \in Planners |-> "idle"]
    /\ capacity = [p \in Planners |-> 0]
    /\ snapshot = [p \in Planners |-> <<>>]
    /\ plan = [p \in Planners |-> EmptyPlan("")]
    /\ rows = [p \in Planners |-> NoRows]
    /\ ret = [p \in Planners |-> NotReturned]
    /\ claimedBy = [o \in OrderIDs |-> {}]
    /\ extWrites = 0
    /\ SelIdle

\* GenerateDeliveryPlan(ctx, robotID, c), step 1: the snapshot read succeeds
ReadSnapshot(p, c) ==
    /\ pc[p] = "idle"
    /\ capacity' = [capacity EXCEPT ![p] = c]
    /\ snapshot' = [snapshot EXCEPT ![p] = GetShippingOrders(status)]
    /\ pc' = [pc EXCEPT ![p] = "read"]
    /\ UNCHANGED <<status, plan, rows, ret, claimedBy,
                   extWrites>>
    /\ UNCHANGED selVars

\* step 1 fails (a storage error, or the context is done): return nil, err
ReadFail(p, c) ==
    /\ pc[p] = "idle"
    /\ capacity' = [capacity EXCEPT ![p] = c]
    /\ ret' = [ret EXCEPT ![p] = Return(plan[p], WithTimeout("read failed"))]
    /\ pc' = [pc EXCEPT ![p] = "returned"]
    /\ UNCHANGED <<status, snapshot, plan, rows, claimedBy,
                   extWrites>>
    /\ UNCHANGED selVars

\* faulty variant of SelectedNothing: the early return is missing
SelectedNothingIgnored(localPlan) == FALSE

\* GenerateDeliveryPlan, lines 37-40: nothing to deliver, return before the
\* transaction
SelectedNothing(localPlan) == Len(localPlan.Orders) = 0

\* the selector runs on the snapshot, the context being done or not when it
\* polls; on its error the call returns nil, err; with nothing selected it
\* returns the empty plan and opens no transaction
Select(p) ==
    /\ pc[p] = "read"
    /\ \E done \in BOOLEAN :
       LET res == selectOrdersForDelivery(done, snapshot[p],
                                          RobotID(p), capacity[p])
       IN  IF res.err # Nil
           THEN /\ ret' = [ret EXCEPT ![p] = Return(plan[p], WithTimeout(res.err))]
                /\ pc' = [pc EXCEPT ![p] = "returned"]
                /\ UNCHANGED plan
           ELSE /\ plan' = [plan EXCEPT ![p] = res.plan]
                /\ IF SelectedNothing(res.plan)
                   THEN /\ ret' = [ret EXCEPT ![p] = Return(res.plan, WithTimeout(Nil))]
                        /\ pc' = [pc EXCEPT ![p] = "returned"]
                   ELSE /\ pc' = [pc EXCEPT ![p] = "selected"]
                        /\ UNCHANGED ret
    /\ UNCHANGED <<status, capacity, snapshot, rows,
                   claimedBy, extWrites>>
    /\ UNCHANGED selVars

\* step 2: the transaction runs the guarded update on the selected ids
Write(p) ==
    /\ pc[p] = "selected"
    /\ LET orderIDs == IdsOf(plan[p].Orders)
           upd == UpdateStatusesIfCurrentStatus(status, orderIDs,
                                                "shipping", "delivering")
           fnErr == TxFnResult(upd.rows, Len(orderIDs))
           after == ExecTx(status, upd.status, fnErr)
       IN  /\ status' = after
           /\ rows' = [rows EXCEPT ![p] = upd.rows]
           /\ claimedBy' = [o \in OrderIDs |->
                               IF after[o] # status[o]
                               THEN claimedBy[o] \cup {p} ELSE claimedBy[o]]
           /\ ret' = [ret EXCEPT ![p] = Return(plan[p], WithTimeout(fnErr))]
    /\ pc' = [pc EXCEPT ![p] = "returned"]
    /\ UNCHANGED <<capacity, snapshot, plan, extWrites>>
    /\ UNCHANGED selVars

\* step 2 fails: the update or the transaction returns an error (a storage
\* error, or the context is done) and nothing of it is applied
WriteFail(p) ==
    /\ pc[p] = "selected"
    /\ ret' = [ret EXCEPT ![p] = Return(plan[p], WithTimeout("write failed"))]
    /\ pc' = [pc EXCEPT ![p] = "returned"]
    /\ UNCHANGED <<status, capacity, snapshot, plan, rows,
                   claimedBy, extWrites>>
    /\ UNCHANGED selVars

\* RobotService.UpdateOrderStatus(ctx, o, s): an unguarded single-order write
UpdateOrderStatus(o, s) ==
    /\ extWrites < MaxExtWrites
    /\ status' = UpdateStatuses(status, <<o>>, s)
    /\ extWrites' = extWrites + 1
    /\ UNCHANGED <<pc, capacity, snapshot, plan, rows, ret,
                   claimedBy>>
    /\ UNCHANGED selVars

Next ==
    \/ \E p \in Planners, c \in Capacities : ReadSnapshot(p, c)
    \/ \E p \in Planners, c \in Capacities : ReadFail(p, c)
    \/ \E p \in Planners : Select(p)
    \/ \E p \in Planners : Write(p)
    \/ \E p \in Planners : WriteFail(p)
    \/ \E o \in OrderIDs, s \in Statuses : UpdateOrderStatus(o, s)

Spec == Init /\ [][Next]_vars

\* ---------------------------------------------------------------------
\* Properties of the selector, stated for SelSpec
\* ---------------------------------------------------------------------

Returned == selPc = "done"
ThePlan == selRes.plan

\* the candidates of a list whose positions are in S
Sub(orders, S) == SelectSeq(orders, LAMBDA o : o.OrderID \in S)

\* reference by enumeration: the best total value of a subset within capacity
BestAchievable(orders, cap) ==
    LET fits == {S \in SUBSET (1 .. Len(orders)) :
                    SumWeight(Sub(orders, S)) <= cap}
        best == CHOOSE S \in fits :
                    \A T \in fits :
                        SumValue(Sub(orders, T)) <= SumValue(Sub(orders, S))
    IN  SumValue(Sub(orders, best))

\* candidates as the data model has them: weight and value non-negative
WellFormed(orders) ==
    \A i \in 1 .. Len(orders) : orders[i].Weight >= 0 /\ orders[i].Value >= 0

Malformed(o) == o.Weight < 0 \/ o.Value < 0

\* C3: for up to MaxLen well-formed candidates and a capacity >= 0 the
\* returned plan's TotalValue is the sum of the values of its orders and
\* equals the best total value of any subset of the candidates within the
\* capacity, found by enumerating the subsets.
C3_PlanIsOptimal ==
    (/\ Returned /\ selCap >= 0 /\ WellFormed(selOrders)
     /\ Len(selOrders) <= MaxLen) =>
        /\ ThePlan.TotalValue = SumValue(ThePlan.Orders)
        /\ ThePlan.TotalValue = BestAchievable(selOrders, selCap)

\* C4: for a capacity >= 0 the returned plan's TotalWeight is the sum of
\* the weights of its orders and does not exceed the capacity.
C4_WithinCapacity ==
    (Returned /\ selCap >= 0) =>
        /\ ThePlan.TotalWeight = SumWeight(ThePlan.Orders)
        /\ ThePlan.TotalWeight <= selCap

\* C4 witness: the DP path was taken (the eligible candidates together
\* exceed the capacity), it selected two orders and filled the capacity.
C4_Witness ==
    /\ Returned
    /\ selCap >= 0
    /\ SumWeight(PreFilter(selOrders, selCap)) > selCap
    /\ Len(ThePlan.Orders) = 2
    /\ ThePlan.TotalWeight = selCap

C8_OnlyEligibleSelected ==
    Returned =>
        /\ \A k \in 1 .. Len(ThePlan.Orders) :
              LET o == ThePlan.Orders[k]
              IN  /\ o.Weight <= selCap
                  /\ o.Weight > 0
                  /\ o.Value > 0
                  /\ \E i \in 1 .. Len(selOrders) : selOrders[i] = o
        /\ \A k, m \in 1 .. Len(ThePlan.Orders) :
              ThePlan.Orders[k].OrderID = ThePlan.Orders[m].OrderID => k = m

\* C8 witness: the candidates include a weightless order of positive value
\* and an order heavier than the capacity, and the DP path selected others.
C8_Witness ==
    /\ Returned
    /\ \E i \in 1 .. Len(selOrders) :
          selOrders[i].Weight = 0 /\ selOrders[i].Value > 0
    /\ \E i \in 1 .. Len(selOrders) : selOrders[i].Weight > selCap
    /\ Len(ThePlan.Orders) >= 1

\* C10: the TotalValue returned for a capacity is at least the TotalValue
\* returned for any smaller capacity on the same candidates.
C10_ValueMonotone ==
    (Returned /\ selPrev # -1) => selPrev <= ThePlan.TotalValue

\* C10 witness: the larger capacity took the DP path and returned strictly
\* more value than the smaller one, which returned some.
C10_Witness ==
    /\ Returned
    /\ selPrev > 0
    /\ ThePlan.TotalValue > selPrev
    /\ SumWeight(PreFilter(selOrders, selCap)) > selCap

\* the DP loop of the latest call ran as far as its first poll: the call was
\* not trivial, PollEvery or more candidates passed the pre-filter and
\* together they weigh more than the capacity
PollReached ==
    LET filtered == PreFilter(selOrders, selCap)
    IN  /\ ~IsTrivial(selOrders, selCap)
        /\ Len(filtered) >= PollEvery
        /\ SumWeight(filtered) > selCap

\* C13: a call whose DP loop reached a poll while the context was done
\* returned an error together with the zero plan (no orders, zero totals),
\* and GenerateDeliveryPlan hands no id to the write; every other call,
\* those returning a normal empty plan included, returned a nil error.
C13_CancelledAtPollAborts ==
    Returned =>
        /\ (selCtxDone /\ PollReached) =>
               /\ selRes.err # Nil
               /\ selRes.plan = EmptyPlan("")
               /\ selOrderIDs = <<>>
        /\ ~(selCtxDone /\ PollReached) => selRes.err = Nil

\* C13 witness: PollEvery candidates, heavier together than the capacity,
\* and a context found done at the poll of row PollEvery: the call returned
\* the error.
C13_Witness ==
    /\ Returned
    /\ selCtxDone
    /\ selCap >= 1
    /\ Len(PreFilter(selOrders, selCap)) = PollEvery
    /\ selRes.err = "context done"
    /\ selRes.plan.Orders = <<>>

\* ---------------------------------------------------------------------
\* Properties of GenerateDeliveryPlan over the ledger, stated for Spec
\* ---------------------------------------------------------------------

Other(p) == CHOOSE q \in Planners : q # p
SelectedIDs(p) == Range(IdsOf(plan[p].Orders))
Requested(p) == Len(plan[p].Orders)
Wrote(p) == rows[p] # NoRows
Reported(p) == IF Wrote(p) THEN rows[p] ELSE 0
Succeeded(p) == pc[p] = "returned" /\ ret[p].err = Nil
Failed(p) == pc[p] = "returned" /\ ret[p].err # Nil
Delivering == {o \in OrderIDs : status[o] = "delivering"}

\* C1: with no other writer, every order is moved to 'delivering' by at most
\* one call's write, the two reported counts add up to the number of orders
\* that are 'delivering', and a call's count is its requested count less
\* the selected orders the other call's write had already moved.
C1_NoDoubleClaim ==
    extWrites = 0 =>
        /\ \A o \in OrderIDs : Cardinality(claimedBy[o]) <= 1
        /\ Reported(1) + Reported(2) = Cardinality(Delivering)
        /\ \A p \in Planners :
              Wrote(p) =>
                  /\ rows[p] =
                        Cardinality({o \in SelectedIDs(p) : claimedBy[o] = {p}})
                  /\ Requested(p) - rows[p] =
                        Cardinality({o \in SelectedIDs(p) :
                                        claimedBy[o] = {Other(p)}})

\* C1 witness: both calls wrote and returned, they had selected a common
\* order, and one of them moved some but not all of its selection.
C1_Witness ==
    /\ extWrites = 0
    /\ \A p \in Planners : Succeeded(p) /\ Wrote(p)
    /\ SelectedIDs(1) \cap SelectedIDs(2) # {}
    /\ \E p \in Planners : rows[p] >= 1 /\ rows[p] < Requested(p)
    /\ rows[1] + rows[2] >= 2

\* C2: with no other writer, no order id is in the plans that both calls
\* return successfully.
C2_NoSharedOwnership ==
    extWrites = 0 =>
        \A p \in Planners :
            (Succeeded(p) /\ Succeeded(Other(p))) =>
                Range(IdsOf(ret[p].plan[1].Orders))
                    \cap Range(IdsOf(ret[Other(p)].plan[1].Orders)) = {}

C7_ShortfallIsSuccess ==
    \A p \in Planners :
        (pc[p] = "returned" /\ Wrote(p) /\ rows[p] < Requested(p)) =>
            /\ ret[p].err = Nil
            /\ ret[p].plan =
                  << selectOrdersForDelivery(FALSE, snapshot[p], RobotID(p),
                                             capacity[p]).plan >>
            /\ Len(ret[p].plan[1].Orders) > rows[p]

\* C7 witness: with no other writer, a call selected two orders, lost one of
\* them to the other call and returned.
C7_Witness ==
    \E p \in Planners :
        /\ extWrites = 0
        /\ pc[p] = "returned"
        /\ Requested(p) = 2
        /\ rows[p] = 1

\* the step in which call p's guarded update runs
WriteStep(p) == pc[p] = "selected" /\ pc'[p] = "returned" /\ Wrote(p)'

\* C11: a call's write sets to 'delivering' exactly the orders that are among
\* its selected ids and still 'shipping' when it runs, leaves every other
\* order as it is (also a selected order whose status another call or
\* UpdateOrderStatus changed since the snapshot), and counts only the orders
\* it changed.
C11_WriteOnlyGuardedRows ==
    [][\A p \in Planners :
          WriteStep(p) =>
              /\ \A o \in OrderIDs :
                    status'[o] =
                        IF o \in SelectedIDs(p) /\ status[o] = "shipping"
                        THEN "delivering" ELSE status[o]
              /\ rows'[p] =
                    Cardinality({o \in SelectedIDs(p) : status[o] = "shipping"})
      ]_vars

\* C11 witness: a call has written; UpdateOrderStatus had set one of its
\* selected orders to 'completed' after the snapshot, no call moved that
\* order, it is still 'completed', and the count is one short.
C11_Witness ==
    \E p \in Planners : \E o \in SelectedIDs(p) :
        /\ Wrote(p)
        /\ extWrites = 1
        /\ status[o] = "completed"
        /\ claimedBy[o] = {}
        /\ Requested(p) = 2
        /\ rows[p] = 1

\* what the selector returns for call p's snapshot under a live context
SelectionOf(p) ==
    selectOrdersForDelivery(FALSE, snapshot[p], RobotID(p), capacity[p])

\* C12: once the selector has selected no order for a call, the call has
\* returned the empty plan with a nil error, it never waits for a
\* transaction, it has logged no rows-affected count and no write of it has
\* moved an order.
C12_EmptySelectionNoWrite ==
    \A p \in Planners :
        (/\ pc[p] \in {"selected", "returned"}
         /\ ret[p].err # "read failed"
         /\ Len(SelectionOf(p).plan.Orders) = 0) =>
            /\ pc[p] = "returned"
            /\ ret[p] = [plan |-> <<EmptyPlan(RobotID(p))>>, err |-> Nil]
            /\ rows[p] = NoRows
            /\ \A o \in OrderIDs : p \notin claimedBy[o]

\* C12 witness: a call with a capacity >= 1 read a snapshot that was not
\* empty, every candidate was filtered out and it returned the empty plan,
\* while the other call's write moved orders.
C12_Witness ==
    \E p \in Planners :
        /\ Succeeded(p)
        /\ capacity[p] >= 1
        /\ Len(snapshot[p]) >= 1
        /\ Len(ret[p].plan[1].Orders) = 0
        /\ rows[p] = NoRows
        /\ rows[Other(p)] >= 1
====
